---------------------------- MODULE Spec2Model ----------------------------
(***************************************************************************)
(* Model of data-processor/processor.py: the cleaning, deduplication and   *)
(* summary functions over a grid (a pandas DataFrame), and the sequential  *)
(* driver main() that loads a file and writes the artifacts.               *)
(*                                                                         *)
(* A grid is [n, names, types, cols]: n rows, and per column its name (a   *)
(* sequence of characters), its dtype ("object" or "number") and the       *)
(* sequence of its n cells.  A cell is a tagged value: missing (NaN/None), *)
(* a number, or a string (a sequence of characters).                       *)
(***************************************************************************)
EXTENDS Integers, Sequences, FiniteSets, TLC

VARIABLES pc,        \* position of the run / of the function calls
          df,        \* the grid: argument of basic_clean / deduplicate, df of main
          thr,       \* drop_threshold, in percent
          fm,        \* fill_method
          sub,       \* subset of deduplicate / --dedup-cols
          res1,      \* result of the first call
          res2,      \* result of the call on the first call's output
          inputExists, \* inp.exists()
          suffix,    \* inp.suffix
          cleaned,   \* main: (cleaned, dropped)
          deduped,   \* main: (deduped, removed)
          summary,   \* main: summary
          plots,     \* main: plots
          outdirMade,\* the output directory was created
          files,     \* artifacts of this run present in the output directory
          written,   \* artifacts in the order this run wrote them
          meta,      \* the record serialised into meta.json
          exitCode   \* process exit status, NoExit while running

vars == <<pc, df, thr, fm, sub, res1, res2, inputExists, suffix, cleaned,
          deduped, summary, plots, outdirMade, files, written, meta, exitCode>>

-----------------------------------------------------------------------------
(* Bounds of the model *)

\* rows of the grids handed to basic_clean and deduplicate on their own
MaxRows == 3
\* rows of the grids main() loads
MaxPipeRows == 2

\* Column names of the input grids, as they stand in the file header.
ColNames == << <<" ", "a">>, <<"b">> >>

\* drop_threshold values, in percent of the row count.
ThresholdPcts == {0, 50, 100}

FillMethods == {"ffill", "zero", "other"}

-----------------------------------------------------------------------------
(* Cells *)

NA == [k |-> "na", n |-> 0, s |-> <<>>]
Num(x) == [k |-> "num", n |-> x, s |-> <<>>]
Str(t) == [k |-> "str", n |-> 0, s |-> t]

IsNA(c) == c.k = "na"

None == [given |-> FALSE, names |-> {}]
Subset(S) == [given |-> TRUE, names |-> S]

-----------------------------------------------------------------------------
(* str.strip, astype(str), replace *)

IsSpace(ch) == ch = " "

RECURSIVE LStrip(_)
LStrip(s) == IF s # <<>> /\ IsSpace(Head(s)) THEN LStrip(Tail(s)) ELSE s

RECURSIVE RStrip(_)
RStrip(s) ==
    IF s # <<>> /\ IsSpace(s[Len(s)]) THEN RStrip(SubSeq(s, 1, Len(s) - 1)) ELSE s

Strip(s) == RStrip(LStrip(s))

Digits == <<"0", "1", "2", "3", "4", "5", "6", "7", "8", "9">>

\* astype(str): str() of the cell; NaN becomes the text "nan".
AsTypeStr(c) ==
    CASE c.k = "na" -> <<"n", "a", "n">>
      [] c.k = "num" -> <<Digits[(c.n % 10) + 1]>>
      [] OTHER -> c.s

\* .replace({"nan": "", "None": ""}) on whole values
ReplaceTokens(s) ==
    IF s = <<"n", "a", "n">> \/ s = <<"N", "o", "n", "e">> THEN <<>> ELSE s

\* line 41, one cell of an object column
NormCell(c) == Str(ReplaceTokens(Strip(AsTypeStr(c))))

-----------------------------------------------------------------------------
(* Grids *)

NCols(G) == Len(G.names)

\* the cells a column of a dtype can hold, numbered
CellChoices(ty) ==
    IF ty = "object"
    THEN <<NA, Str(<<" ", "a">>), Str(<<"n", "a", "n">>)>>
    ELSE <<NA, Num(1), Num(2)>>

\* the grid of n rows whose column c has dtype tys[c] and cells picked by ch[c]
MkGrid(n, tys, ch) ==
    [n |-> n,
     names |-> SubSeq(ColNames, 1, Len(tys)),
     types |-> tys,
     cols |-> [c \in 1..Len(tys) |-> [i \in 1..n |-> CellChoices(tys[c])[ch[c][i]]]]]

\* df is a grid read_csv / read_excel can return: at least one column, at
\* most maxRows rows
IsInputGrid(G, maxRows) ==
    \E n \in 0..maxRows, k \in 1..Len(ColNames) :
        \E tys \in [1..k -> {"object", "number"}] :
            \E ch \in [1..k -> [1..n -> 1..3]] : G = MkGrid(n, tys, ch)

\* indices of the columns of G selected by predicate mask (a set of indices), in order
RECURSIVE PickSeq(_, _, _)
PickSeq(s, keep, i) ==
    IF i > Len(s) THEN <<>>
    ELSE (IF i \in keep THEN <<s[i]>> ELSE <<>>) \o PickSeq(s, keep, i + 1)

-----------------------------------------------------------------------------
(* basic_clean *)

\* line 39: rename(columns=strip)
RenameCols(G) == [G EXCEPT !.names = [i \in 1..NCols(G) |-> Strip(G.names[i])]]

\* lines 40-41: every object column is stringified, trimmed, tokens emptied
NormStrings(G) ==
    [G EXCEPT !.cols = [c \in 1..NCols(G) |->
        IF G.types[c] = "object"
        THEN [i \in 1..G.n |-> NormCell(G.cols[c][i])]
        ELSE G.cols[c]]]

NACount(col) == Cardinality({i \in DOMAIN col : IsNA(col[i])})

\* variant: na_frac >= drop_threshold
TooManyMissingGe(col, t) == Len(col) > 0 /\ NACount(col) * 100 >= t * Len(col)

\* line 43-44: na_frac > drop_threshold; the mean of an empty column is NaN,
\* and NaN > t is False.
TooManyMissing(col, t) == Len(col) > 0 /\ NACount(col) * 100 > t * Len(col)

DropIdx(G, t) == {c \in 1..NCols(G) : TooManyMissing(G.cols[c], t)}

DropCols(G, t) == PickSeq(G.names, DropIdx(G, t), 1)

\* line 45-46
DropStep(G, t) ==
    LET keep == (1..NCols(G)) \ DropIdx(G, t)
    IN [n |-> G.n,
        names |-> PickSeq(G.names, keep, 1),
        types |-> PickSeq(G.types, keep, 1),
        cols |-> PickSeq(G.cols, keep, 1)]

\* fillna(method="ffill") on one column
RECURSIVE FFillFrom(_, _, _)
FFillFrom(col, i, last) ==
    IF i > Len(col) THEN <<>>
    ELSE LET v == IF IsNA(col[i]) THEN last ELSE col[i]
         IN <<v>> \o FFillFrom(col, i + 1, v)

\* variant: a missing cell takes the cell right above it, filled or not
FFillAbove(col) ==
    [i \in DOMAIN col |-> IF IsNA(col[i]) /\ i > 1 THEN col[i - 1] ELSE col[i]]

FFill(col) == FFillFrom(col, 1, NA)

\* fillna(method="bfill") on one column
RECURSIVE BFillFrom(_, _, _)
BFillFrom(col, i, next) ==
    IF i < 1 THEN <<>>
    ELSE LET v == IF IsNA(col[i]) THEN next ELSE col[i]
         IN BFillFrom(col, i - 1, v) \o <<v>>

\* variant: no backward pass
BFillSkipped(col) == col

BFill(col) == BFillFrom(col, Len(col), NA)

\* fillna(0) on one column
ZeroFill(col) == [i \in DOMAIN col |-> IF IsNA(col[i]) THEN Num(0) ELSE col[i]]

\* variant: the "zero" branch is not taken
FillColNoZero(col, method) ==
    IF method = "ffill" THEN BFill(FFill(col)) ELSE FFill(col)

\* lines 48-54
FillCol(col, method) ==
    IF method = "ffill" THEN BFill(FFill(col))
    ELSE IF method = "zero" THEN ZeroFill(col)
    ELSE FFill(col)

FillStep(G, method) ==
    [G EXCEPT !.cols = [c \in 1..NCols(G) |-> FillCol(G.cols[c], method)]]

\* the grid as it stands before the fill (after line 46)
PreFill(G, t) == DropStep(NormStrings(RenameCols(G)), t)

basic_clean(G, t, method) ==
    LET N == NormStrings(RenameCols(G))
    IN [grid |-> FillStep(DropStep(N, t), method), dropped |-> DropCols(N, t)]

-----------------------------------------------------------------------------
(* deduplicate *)

ColSet(G) == {G.names[c] : c \in 1..NCols(G)}

\* DataFrame.empty: any axis of length 0
IsEmpty(G) == G.n = 0 \/ NCols(G) = 0

\* variant: subset is ignored
CompareIdxAll(G, S) == 1..NCols(G)

\* the compared columns: all of them when subset is None
CompareIdx(G, S) ==
    IF S.given THEN {c \in 1..NCols(G) : G.names[c] \in S.names} ELSE 1..NCols(G)

RowKey(G, idx, i) == [c \in idx |-> G.cols[c][i]]

\* rows kept by keep="first": one pass in row order over the keys seen so far
RECURSIVE KeptFrom(_, _, _, _)
KeptFrom(G, idx, i, seen) ==
    IF i > G.n THEN {}
    ELSE LET key == RowKey(G, idx, i)
         IN IF key \in seen THEN KeptFrom(G, idx, i + 1, seen)
            ELSE {i} \cup KeptFrom(G, idx, i + 1, seen \cup {key})

TakeRows(G, keep) ==
    [G EXCEPT !.n = Cardinality(keep),
              !.cols = [c \in 1..NCols(G) |-> PickSeq(G.cols[c], keep, 1)]]

\* df.drop_duplicates(subset=subset); an empty frame is returned as it is
drop_duplicates(G, S) ==
    IF IsEmpty(G) THEN G ELSE TakeRows(G, KeptFrom(G, CompareIdx(G, S), 1, {}))

\* drop_duplicates raises KeyError for a subset name that is no column
UnknownColumn(G, S) == ~IsEmpty(G) /\ S.given /\ ~(S.names \subseteq ColSet(G))

\* variant: the difference is taken the other way round
deduplicateSwapped(G, S) ==
    LET df2 == drop_duplicates(G, S)
    IN [grid |-> df2, removed |-> df2.n - G.n]

\* lines 58-62
deduplicate(G, S) ==
    LET before == G.n
        df2 == drop_duplicates(G, S)
        after == df2.n
    IN [grid |-> df2, removed |-> before - after]

-----------------------------------------------------------------------------
(* generate_summary, save_plots *)

SampleRows == 5
MaxPlots == 3

Min(a, b) == IF a < b THEN a ELSE b

\* int(df.duplicated().sum()); duplicated() of an empty frame is an empty Series
DuplicatedCount(G) ==
    IF IsEmpty(G) THEN 0
    ELSE G.n - Cardinality(KeptFrom(G, 1..NCols(G), 1, {}))

\* lines 67-73
Summarize(G) ==
    [rows |-> G.n,
     columns |-> NCols(G),
     column_types |-> G.types,
     missing_per_column |-> [c \in 1..NCols(G) |-> NACount(G.cols[c])],
     duplicates |-> DuplicatedCount(G),
     sample |-> TakeRows(G, 1..Min(SampleRows, G.n)).cols]

Artifact(kind) == [kind |-> kind, idx |-> 0, col |-> <<>>]
Hist(i, col) == [kind |-> "hist", idx |-> i, col |-> col]

\* lines 97-106: one image per numeric column, the first max_plots of them
NumericNames(G) == PickSeq(G.names, {c \in 1..NCols(G) : G.types[c] = "number"}, 1)

PlotList(G) ==
    LET nn == NumericNames(G)
    IN [i \in 1..Min(MaxPlots, Len(nn)) |-> Hist(i, nn[i])]

-----------------------------------------------------------------------------
(* detect_file_type *)

LowerChar(ch) ==
    CASE ch = "C" -> "c" [] ch = "S" -> "s" [] ch = "V" -> "v"
      [] ch = "X" -> "x" [] ch = "L" -> "l" [] ch = "T" -> "t"
      [] OTHER -> ch

Lower(s) == [i \in 1..Len(s) |-> LowerChar(s[i])]

Suffixes == { <<".", "C", "S", "V">>, <<".", "x", "l", "s">>, <<".", "j", "s", "o", "n">> }

detect_file_type(sfx) ==
    LET l == Lower(sfx)
    IN IF l \in { <<".", "c", "s", "v">>, <<".", "t", "x", "t">> } THEN "csv"
       ELSE IF l \in { <<".", "x", "l", "s">>, <<".", "x", "l", "s", "x">> } THEN "excel"
       ELSE "unsupported"

-----------------------------------------------------------------------------
(* Values of the variables a specification does not use yet *)

NoGrid == [n |-> 0, names |-> <<>>, types |-> <<>>, cols |-> <<>>]
NoClean == [grid |-> NoGrid, dropped |-> <<>>]
NoDedup == [grid |-> NoGrid, removed |-> 0]
NoSummary == Summarize(NoGrid)
NoMeta == [dropped_columns |-> <<>>, duplicates_removed |-> 0, plots |-> <<>>,
           summary |-> NoSummary]
NoExit == -1

IdleCalls == res1 = NoClean /\ res2 = NoClean

IdleRun ==
    /\ inputExists = TRUE /\ suffix = <<>>
    /\ cleaned = NoClean /\ deduped = NoDedup /\ summary = NoSummary
    /\ plots = <<>> /\ outdirMade = FALSE /\ files = {} /\ written = <<>>
    /\ meta = NoMeta /\ exitCode = NoExit

RunVars == <<inputExists, suffix, cleaned, deduped, summary, plots, outdirMade,
             files, written, meta, exitCode>>

-----------------------------------------------------------------------------
(* basic_clean called on a grid, then on its own output *)

InitClean ==
    /\ pc = "clean"
    /\ IsInputGrid(df, MaxRows)
    /\ thr \in ThresholdPcts
    /\ fm \in FillMethods
    /\ sub = None
    /\ IdleCalls /\ IdleRun

CallClean ==
    /\ pc = "clean"
    /\ res1' = basic_clean(df, thr, fm)
    /\ pc' = "clean_again"
    /\ UNCHANGED <<df, thr, fm, sub, res2, RunVars>>

CallCleanAgain ==
    /\ pc = "clean_again"
    /\ res2' = basic_clean(res1.grid, thr, fm)
    /\ pc' = "cleaned_twice"
    /\ UNCHANGED <<df, thr, fm, sub, res1, RunVars>>

NextClean == CallClean \/ CallCleanAgain

SpecClean == InitClean /\ [][NextClean]_vars

-----------------------------------------------------------------------------
(* deduplicate called on a grid, then on its own output *)

\* subset=None, or a non-empty list of columns of the grid
SubsetsOf(G) == {None} \cup {Subset(S) : S \in (SUBSET ColSet(G)) \ {{}}}

InitDedup ==
    /\ pc = "dedup"
    /\ IsInputGrid(df, MaxRows)
    /\ sub \in SubsetsOf(df)
    /\ thr = 0 /\ fm = "ffill"
    /\ IdleCalls /\ IdleRun

CallDedup ==
    /\ pc = "dedup"
    /\ res1' = deduplicate(df, sub)
    /\ pc' = "dedup_again"
    /\ UNCHANGED <<df, thr, fm, sub, res2, RunVars>>

CallDedupAgain ==
    /\ pc = "dedup_again"
    /\ res2' = deduplicate(res1.grid, sub)
    /\ pc' = "deduped_twice"
    /\ UNCHANGED <<df, thr, fm, sub, res1, RunVars>>

NextDedup == CallDedup \/ CallDedupAgain

SpecDedup == InitDedup /\ [][NextDedup]_vars

-----------------------------------------------------------------------------
(* Properties of basic_clean (SpecClean) *)

Cleaned1 == pc \in {"clean_again", "cleaned_twice"}

\* missing cells of column c of the input, as a percentage comparison with thr
InFracEq(c) == df.n > 0 /\ NACount(df.cols[c]) * 100 = thr * df.n
InFracGt(c) == df.n > 0 /\ NACount(df.cols[c]) * 100 > thr * df.n

\* column c of the input is in the output / in the dropped list of the first call
KeptCol(c) == Strip(df.names[c]) \in ColSet(res1.grid)
NamedDropped(c) == \E j \in 1..Len(res1.dropped) : res1.dropped[j] = Strip(df.names[c])

\* the output cells of input column c
OutCol(c) ==
    res1.grid.cols[CHOOSE j \in 1..NCols(res1.grid) : res1.grid.names[j] = Strip(df.names[c])]

\* C1: basic_clean run on its own output with the same parameters returns the
\* same grid (names and cells) and an empty list of dropped columns.
C1_CleanIdempotent ==
    pc = "cleaned_twice" =>
        /\ res2.grid.names = res1.grid.names
        /\ res2.grid.cols = res1.grid.cols
        /\ res2.grid.n = res1.grid.n
        /\ res2.dropped = <<>>

\* a first call that dropped a column, kept one and filled a missing cell in it
C1_Witness ==
    /\ pc = "cleaned_twice"
    /\ res1.dropped # <<>>
    /\ \E c \in 1..NCols(df) :
          /\ KeptCol(c)
          /\ \E i \in 1..df.n : IsNA(df.cols[c][i]) /\ ~IsNA(OutCol(c)[i])

\* C2 as stated: whatever the column's type, a column whose input
\* missing-fraction is exactly the threshold is kept and one whose input
\* missing-fraction exceeds the threshold is dropped and named.
C2_DropAnyType ==
    Cleaned1 =>
        \A c \in 1..NCols(df) :
            /\ InFracEq(c) => KeptCol(c) /\ ~NamedDropped(c)
            /\ InFracGt(c) => ~KeptCol(c) /\ NamedDropped(c)

\* C2 amended: the rule holds for the columns that are not textual; a textual
\* column is never dropped, since its missing cells are empty strings by the
\* time the fraction is measured.
C2_DropRule ==
    Cleaned1 =>
        \A c \in 1..NCols(df) :
            IF df.types[c] = "object"
            THEN KeptCol(c) /\ ~NamedDropped(c)
            ELSE /\ InFracEq(c) => KeptCol(c) /\ ~NamedDropped(c)
                 /\ InFracGt(c) => ~KeptCol(c) /\ NamedDropped(c)

\* one numeric column exactly at the threshold and kept, another entirely
\* missing and dropped below threshold 100
C2_Witness ==
    /\ Cleaned1
    /\ thr = 50
    /\ \E c, d \in 1..NCols(df) :
          /\ df.types[c] = "number" /\ InFracEq(c) /\ KeptCol(c)
          /\ NACount(df.cols[c]) > 0
          /\ df.types[d] = "number" /\ NACount(df.cols[d]) = df.n /\ NamedDropped(d)

\* C3 as stated: with fill_method "zero" every cell missing in the input, in a
\* column that is kept, holds the number zero in the output, textual column or not.
C3_ZeroAnyType ==
    (Cleaned1 /\ fm = "zero") =>
        \A c \in 1..NCols(df) :
            KeptCol(c) =>
                \A i \in 1..df.n : IsNA(df.cols[c][i]) => OutCol(c)[i] = Num(0)

\* C3 amended: with fill_method "zero" a cell missing in the input holds the
\* number zero in a kept column that is not textual and the empty string in a
\* textual column; no cell of the output stays missing.
C3_ZeroFill ==
    (Cleaned1 /\ fm = "zero") =>
        \A c \in 1..NCols(df) :
            KeptCol(c) =>
                \A i \in 1..df.n :
                    /\ ~IsNA(OutCol(c)[i])
                    /\ IsNA(df.cols[c][i]) =>
                          OutCol(c)[i] = (IF df.types[c] = "object" THEN Str(<<>>) ELSE Num(0))

\* a kept numeric column and a textual column, each with a missing input cell
C3_Witness ==
    /\ Cleaned1 /\ fm = "zero"
    /\ \E c, d \in 1..NCols(df) :
          /\ df.types[c] = "number" /\ KeptCol(c)
          /\ \E i \in 1..df.n : IsNA(df.cols[c][i]) /\ OutCol(c)[i] = Num(0)
          /\ df.types[d] = "object" /\ KeptCol(d)
          /\ \E i \in 1..df.n : IsNA(df.cols[d][i]) /\ OutCol(d)[i] = Str(<<>>)

\* C4: a fill_method that is neither "ffill" nor "zero" returns what
\* fill_method "ffill" returns, leading missing runs included.
C4_OtherIsFfill ==
    (Cleaned1 /\ fm = "other") => res1 = basic_clean(df, thr, "ffill")

\* first and last non-missing positions around row i of a column
PrevSeen(col, i) == {j \in 1..(i - 1) : ~IsNA(col[j])}
NextSeen(col, i) == {j \in (i + 1)..Len(col) : ~IsNA(col[j])}
MaxOf(S) == CHOOSE x \in S : \A y \in S : y <= x
MinOf(S) == CHOOSE x \in S : \A y \in S : x <= y

\* C9: with fill_method "ffill", in every kept column the fill leaves a column
\* without missing cells unchanged, gives a missing cell the nearest preceding
\* non-missing value, gives a cell of a leading missing run the nearest
\* following non-missing value, and leaves an entirely missing column missing.
C9_FfillBfill ==
    (Cleaned1 /\ fm = "ffill") =>
        LET P == PreFill(df, thr)
            R == res1.grid
        IN /\ R.names = P.names
           /\ \A c \in 1..NCols(P) :
                LET before == P.cols[c]
                    after == R.cols[c]
                IN /\ Len(after) = Len(before)
                   /\ NACount(before) = 0 => after = before
                   /\ NACount(before) = Len(before) => after = before
                   /\ NACount(before) < Len(before) => NACount(after) = 0
                   /\ \A i \in 1..Len(before) :
                        IF ~IsNA(before[i]) THEN after[i] = before[i]
                        ELSE IF PrevSeen(before, i) # {}
                             THEN after[i] = before[MaxOf(PrevSeen(before, i))]
                        ELSE IF NextSeen(before, i) # {}
                             THEN after[i] = before[MinOf(NextSeen(before, i))]
                        ELSE IsNA(after[i])

\* a kept column with a leading missing cell, two different values and a
\* missing cell after them, beside a kept column that is entirely missing
C9_Witness ==
    /\ Cleaned1 /\ fm = "ffill" /\ thr = 100
    /\ LET P == PreFill(df, thr)
       IN \E c, d \in 1..NCols(P) :
            /\ Len(P.cols[c]) >= 3
            /\ IsNA(P.cols[c][1]) /\ ~IsNA(P.cols[c][2]) /\ IsNA(P.cols[c][3])
            /\ res1.grid.cols[c][1] = P.cols[c][2]
            /\ res1.grid.cols[c][3] = P.cols[c][2]
            /\ NACount(P.cols[d]) = Len(P.cols[d])
            /\ NACount(res1.grid.cols[d]) = Len(P.cols[d])

-----------------------------------------------------------------------------
(* Properties of deduplicate (SpecDedup) *)

Deduped1 == pc \in {"dedup_again", "deduped_twice"}

\* rows i and j of the input agree on every compared column
SameOn(idx, i, j) == \A c \in idx : df.cols[c][i] = df.cols[c][j]

\* the rows of the input with no earlier row equal to them on the compared columns
FirstOccurrences ==
    LET idx == IF sub.given THEN {c \in 1..NCols(df) : df.names[c] \in sub.names}
               ELSE 1..NCols(df)
    IN {i \in 1..df.n : ~\E j \in 1..(i - 1) : SameOn(idx, i, j)}

\* C5: deduplicate returns at most as many rows as it was given and a
\* non-negative removed count, and run again on its result with the same
\* subset it removes zero rows and returns the same grid.
C5_DedupIdempotent ==
    /\ Deduped1 => res1.grid.n <= df.n /\ res1.removed >= 0
    /\ pc = "deduped_twice" => res2.removed = 0 /\ res2.grid = res1.grid

\* a second call after a first call that removed rows under a proper subset
C5_Witness ==
    /\ pc = "deduped_twice"
    /\ res1.removed > 0
    /\ sub.given /\ sub.names # ColSet(df)
    /\ res1.grid.n >= 2

-----------------------------------------------------------------------------
(* main: one run of the program *)

\* --fill-method choices
CliFillMethods == {"ffill", "zero"}

\* --dedup-cols: omitted, or a non-empty list of names
DedupArgs ==
    {None} \cup
    {Subset(S) : S \in (SUBSET {Strip(ColNames[i]) : i \in 1..Len(ColNames)}) \ {{}}}

Init ==
    /\ pc = "start"
    /\ df = NoGrid
    /\ thr \in ThresholdPcts
    /\ fm \in CliFillMethods
    /\ sub \in DedupArgs
    /\ IdleCalls
    /\ inputExists \in BOOLEAN
    /\ suffix \in Suffixes
    /\ cleaned = NoClean /\ deduped = NoDedup /\ summary = NoSummary
    /\ plots = <<>> /\ outdirMade = FALSE /\ files = {} /\ written = <<>>
    /\ meta = NoMeta /\ exitCode = NoExit

Args == <<thr, fm, sub, res1, res2, inputExists, suffix>>

WriteFile(a) == files' = files \cup {a} /\ written' = Append(written, a)

RECURSIVE WriteAll(_, _)
WriteAll(log, as) == IF as = <<>> THEN log ELSE WriteAll(Append(log, Head(as)), Tail(as))

\* line 124
MakeOutdir ==
    /\ pc = "start"
    /\ outdirMade' = TRUE
    /\ pc' = "exists"
    /\ UNCHANGED <<df, Args, cleaned, deduped, summary, plots, files, written, meta, exitCode>>

\* variant: no check of the input path before reading
CheckInputSkipped ==
    /\ pc = "exists"
    /\ pc' = "read"
    /\ UNCHANGED <<df, Args, cleaned, deduped, summary, plots, outdirMade, files,
                   written, meta, exitCode>>

\* lines 126-128
CheckInput ==
    /\ pc = "exists"
    /\ IF ~inputExists
       THEN pc' = "exited" /\ exitCode' = 2
       ELSE pc' = "read" /\ UNCHANGED exitCode
    /\ UNCHANGED <<df, Args, cleaned, deduped, summary, plots, outdirMade, files,
                   written, meta>>

\* lines 134-138, read_data raising: unsupported suffix, unreadable or
\* malformed file
ReadFails ==
    /\ pc = "read"
    /\ pc' = "exited" /\ exitCode' = 3
    /\ UNCHANGED <<df, Args, cleaned, deduped, summary, plots, outdirMade, files,
                   written, meta>>

\* lines 134-135, read_data returning the parsed grid
ReadOk ==
    /\ pc = "read"
    /\ inputExists
    /\ detect_file_type(suffix) \in {"csv", "excel"}
    /\ IsInputGrid(df', MaxPipeRows)
    /\ pc' = "clean"
    /\ UNCHANGED <<Args, cleaned, deduped, summary, plots, outdirMade, files,
                   written, meta, exitCode>>

\* line 141
BasicClean ==
    /\ pc = "clean"
    /\ cleaned' = basic_clean(df, thr, fm)
    /\ pc' = "dedup"
    /\ UNCHANGED <<df, Args, deduped, summary, plots, outdirMade, files, written,
                   meta, exitCode>>

\* line 144; a KeyError is not caught and ends the process with status 1
Dedup ==
    /\ pc = "dedup"
    /\ IF UnknownColumn(cleaned.grid, sub)
       THEN pc' = "crashed" /\ exitCode' = 1 /\ UNCHANGED deduped
       ELSE pc' = "save_csv" /\ deduped' = deduplicate(cleaned.grid, sub)
                             /\ UNCHANGED exitCode
    /\ UNCHANGED <<df, Args, cleaned, summary, plots, outdirMade, files, written, meta>>

\* lines 147-148
SaveCsv ==
    /\ pc = "save_csv"
    /\ WriteFile(Artifact("cleaned.csv"))
    /\ pc' = "summary"
    /\ UNCHANGED <<df, Args, cleaned, deduped, summary, plots, outdirMade, meta, exitCode>>

\* variant: the summary is taken of the cleaned grid, not the deduplicated one
GenerateSummaryOfCleaned ==
    /\ pc = "summary"
    /\ summary' = Summarize(cleaned.grid)
    /\ files' = files \cup {Artifact("summary.json"), Artifact("report.html")}
    /\ written' = written \o <<Artifact("summary.json"), Artifact("report.html")>>
    /\ pc' = "plots"
    /\ UNCHANGED <<df, Args, cleaned, deduped, plots, outdirMade, meta, exitCode>>

\* line 151, lines 65-92
GenerateSummary ==
    /\ pc = "summary"
    /\ summary' = Summarize(deduped.grid)
    /\ files' = files \cup {Artifact("summary.json"), Artifact("report.html")}
    /\ written' = written \o <<Artifact("summary.json"), Artifact("report.html")>>
    /\ pc' = "plots"
    /\ UNCHANGED <<df, Args, cleaned, deduped, plots, outdirMade, meta, exitCode>>

\* lines 75-91: summary.json is written, then an exception before report.html
SummaryFailsMidway ==
    /\ pc = "summary"
    /\ WriteFile(Artifact("summary.json"))
    /\ pc' = "crashed" /\ exitCode' = 1
    /\ UNCHANGED <<df, Args, cleaned, deduped, summary, plots, outdirMade, meta>>

\* line 154, lines 95-107
SavePlots ==
    /\ pc = "plots"
    /\ plots' = PlotList(deduped.grid)
    /\ files' = files \cup {plots'[i] : i \in 1..Len(plots')}
    /\ written' = WriteAll(written, plots')
    /\ pc' = "meta"
    /\ UNCHANGED <<df, Args, cleaned, deduped, summary, outdirMade, meta, exitCode>>

\* lines 99-106: some images are saved, then an exception
PlotsFailMidway ==
    /\ pc = "plots"
    /\ \E k \in 1..(Len(PlotList(deduped.grid)) - 1) :
          LET done == SubSeq(PlotList(deduped.grid), 1, k)
          IN /\ files' = files \cup {done[i] : i \in 1..k}
             /\ written' = WriteAll(written, done)
    /\ pc' = "crashed" /\ exitCode' = 1
    /\ UNCHANGED <<df, Args, cleaned, deduped, summary, plots, outdirMade, meta>>

\* lines 157-166
WriteMeta ==
    /\ pc = "meta"
    /\ meta' = [dropped_columns |-> cleaned.dropped,
                duplicates_removed |-> deduped.removed,
                plots |-> plots,
                summary |-> summary]
    /\ WriteFile(Artifact("meta.json"))
    /\ pc' = "done" /\ exitCode' = 0
    /\ UNCHANGED <<df, Args, cleaned, deduped, summary, plots, outdirMade>>

FailingStages == {"clean", "dedup", "save_csv", "summary", "plots", "meta"}

\* variant: a failing stage removes what the run wrote
FailWithRollback ==
    /\ pc \in FailingStages
    /\ pc' = "crashed" /\ exitCode' = 1
    /\ files' = {}
    /\ UNCHANGED <<df, Args, cleaned, deduped, summary, plots, outdirMade, written, meta>>

\* lines 140-165: an exception in a stage after loading is not caught; the
\* traceback ends the process with status 1 before the stage wrote anything
Fail ==
    /\ pc \in FailingStages
    /\ pc' = "crashed" /\ exitCode' = 1
    /\ UNCHANGED <<df, Args, cleaned, deduped, summary, plots, outdirMade, files,
                   written, meta>>

Next ==
    \/ MakeOutdir
    \/ CheckInput
    \/ ReadFails
    \/ ReadOk
    \/ BasicClean
    \/ Dedup
    \/ SaveCsv
    \/ GenerateSummary
    \/ SummaryFailsMidway
    \/ SavePlots
    \/ PlotsFailMidway
    \/ WriteMeta
    \/ Fail

Spec == Init /\ [][Next]_vars

-----------------------------------------------------------------------------
(* Properties of a run (Spec) *)

Terminated == pc \in {"exited", "crashed", "done"}

WrittenSet == {written[i] : i \in 1..Len(written)}

\* position of an artifact in the order of the run
Rank(a) ==
    CASE a.kind = "cleaned.csv" -> 1
      [] a.kind = "summary.json" -> 2
      [] a.kind = "report.html" -> 3
      [] a.kind = "hist" -> 4
      [] OTHER -> 5

\* C7: a run that fails at loading writes no artifact: a missing input path
\* ends it with exit code 2, an unsupported extension or a failed parse with
\* exit code 3 (the output directory may exist), and exit code 0 is reached
\* only after every stage wrote its artifact.
C7_LoadFailureWritesNothing ==
    /\ pc \in {"start", "exists", "read", "exited"} => written = <<>> /\ files = {}
    /\ (Terminated /\ ~inputExists) => pc = "exited" /\ exitCode = 2
    /\ (Terminated /\ inputExists /\ detect_file_type(suffix) = "unsupported") =>
          pc = "exited" /\ exitCode = 3
    /\ (pc = "exited" /\ inputExists) => exitCode = 3
    /\ exitCode = 2 => ~inputExists /\ pc = "exited"
    /\ exitCode = 3 => inputExists /\ pc = "exited"
    /\ exitCode = 0 =>
          /\ pc = "done"
          /\ {Artifact("cleaned.csv"), Artifact("summary.json"), Artifact("report.html"),
               Artifact("meta.json")} \subseteq files
          /\ \A i \in 1..Len(PlotList(deduped.grid)) : PlotList(deduped.grid)[i] \in files

\* a parse failure of an existing file with a supported extension
C7_Witness ==
    /\ pc = "exited" /\ exitCode = 3
    /\ inputExists /\ detect_file_type(suffix) = "csv"
    /\ outdirMade /\ files = {}

\* C8: artifacts are written in the order cleaned.csv, summary.json,
\* report.html, histograms, meta.json, each at most once and meta.json last, so
\* meta.json is there only with the three before it; a run that fails after
\* loading has not written meta.json, and nothing written is ever removed.
C8_ArtifactOrder ==
    /\ \A i, j \in 1..Len(written) :
          i < j => /\ written[i] # written[j]
                   /\ Rank(written[i]) <= Rank(written[j])
                   /\ written[i].kind = "hist" /\ written[j].kind = "hist" =>
                         written[i].idx < written[j].idx
    /\ Artifact("meta.json") \in WrittenSet =>
          /\ pc = "done"
          /\ written[Len(written)] = Artifact("meta.json")
          /\ {Artifact("cleaned.csv"), Artifact("summary.json"), Artifact("report.html")}
                \subseteq WrittenSet
    /\ pc = "crashed" => Artifact("meta.json") \notin files
    /\ WrittenSet = files

\* a run that failed while plotting, with the earlier artifacts still in place
C8_Witness ==
    /\ pc = "crashed"
    /\ Len(written) = 4
    /\ written[4].kind = "hist"
    /\ Artifact("report.html") \in files

\* C10: in a run the summary, taken after deduplication, counts zero
\* duplicates whatever the subset, and its row count plus the removed count of
\* the metadata is the number of rows loaded.
C10_SummaryAfterDedup ==
    /\ pc \in {"plots", "meta", "done"} =>
          /\ summary.duplicates = 0
          /\ summary.rows + deduped.removed = df.n
          /\ summary.rows = deduped.grid.n
          /\ summary.columns = NCols(deduped.grid)
    /\ pc = "done" =>
          /\ meta.summary.duplicates = 0
          /\ meta.summary.rows + meta.duplicates_removed = df.n

\* a finished run whose subset made it remove a row that differs from the
\* kept one in another column
C10_Witness ==
    /\ pc = "done"
    /\ sub.given
    /\ meta.duplicates_removed > 0
    /\ meta.summary.columns > Cardinality(sub.names)
    /\ \E c \in 1..NCols(cleaned.grid) :
          cleaned.grid.n = 2 /\ cleaned.grid.cols[c][1] # cleaned.grid.cols[c][2]

=============================================================================
